---- MODULE Spec2Model ----
(***************************************************************************)
(* Model of the Gantt chart generator: the "today" marker resolver of the  *)
(* front end (Public/main.js) and the completion call with retries of the  *)
(* back end (server.js).                                                   *)
(*                                                                         *)
(* Dates.  A JavaScript Date is a time value.  The model keeps time values *)
(* in hours of local time since 1 Jan 1970 00:00 and assumes a time zone   *)
(* with a constant UTC offset, so that local midnight to local midnight is *)
(* a whole number of days.  Strings are sequences of one-character         *)
(* strings, so that formatting and the regular expressions are computed.   *)
(* Fractions are exact rationals, kept as numerator and denominator.       *)
(***************************************************************************)
EXTENDS Integers, Sequences, FiniteSets, TLC

(***************************************************************************)
(* Bounds of the model.                                                    *)
(***************************************************************************)
\* Reference dates range over the years ChartYear - YearSpan .. ChartYear + YearSpan
\* and the century years below.
YearSpan == 1
\* Column lists have at most MaxCols labels.
MaxCols == 2

\* The year of the date setupChart passes to addTodayLine.
ChartYear == 2025
\* Years that exercise the century rule of the leap year test.
CenturyYears == {1900, 2000}
\* Times of day of a reference date: midnight, and noon as setupChart passes.
HourSet == {0, 12}

(***************************************************************************)
(* ECMAScript date arithmetic (Date.UTC, new Date(y, m, d), the getters).  *)
(***************************************************************************)
\* 1000 * 60 * 60 * 24 milliseconds, in the model's unit (hours).
MsPerDay == 24

DaysInYear(y) ==
  IF y % 4 # 0 THEN 365
  ELSE IF y % 100 # 0 THEN 366
  ELSE IF y % 400 # 0 THEN 365
  ELSE 366

InLeapYear(y) == DaysInYear(y) = 366

\* Number of the first day of year y, counted from 1 Jan 1970.
DayFromYear(y) ==
  365 * (y - 1970) + ((y - 1969) \div 4) - ((y - 1901) \div 100) + ((y - 1601) \div 400)

\* Length of month m (0 = January) of year y.
DaysInMonth(y, m) ==
  CASE m = 1 -> IF InLeapYear(y) THEN 29 ELSE 28
    [] m \in {3, 5, 8, 10} -> 30
    [] OTHER -> 31

\* Days of year y before month m (0 = January).
DaysBeforeMonth(y, m) ==
  <<0, 31, 59, 90, 120, 151, 181, 212, 243, 273, 304, 334>>[m + 1]
    + (IF m >= 2 /\ InLeapYear(y) THEN 1 ELSE 0)

\* MakeDay: month and day may lie outside their range and are carried over,
\* as in new Date(year, 12, 0).
MakeDay(y, m, d) ==
  LET ym == y + (m \div 12)
      mn == m % 12
  IN  DayFromYear(ym) + DaysBeforeMonth(ym, mn) + d - 1

\* new Date(y, m, d) at local midnight and Date.UTC(y, m, d): a time value.
MakeDate(y, m, d) == MakeDay(y, m, d) * MsPerDay

\* Day number of a time value.
Day(t) == t \div MsPerDay

\* getFullYear / getUTCFullYear: the year whose days hold the time value.
YearFromTime(t) ==
  IF DayFromYear(1970 + (Day(t) \div 365)) > Day(t)
    THEN 1970 + (Day(t) \div 365) - 1
  ELSE IF DayFromYear(1970 + (Day(t) \div 365) + 1) <= Day(t)
    THEN 1970 + (Day(t) \div 365) + 1
  ELSE 1970 + (Day(t) \div 365)

\* Day within its year (0 = 1 Jan) of a time value.
DayWithinYear(t) == Day(t) - DayFromYear(YearFromTime(t))

\* getMonth: 0 = January.
MonthFromDay(n, leap) ==
  IF n < 31 THEN 0
  ELSE IF n < 59 + leap THEN 1
  ELSE IF n < 90 + leap THEN 2
  ELSE IF n < 120 + leap THEN 3
  ELSE IF n < 151 + leap THEN 4
  ELSE IF n < 181 + leap THEN 5
  ELSE IF n < 212 + leap THEN 6
  ELSE IF n < 243 + leap THEN 7
  ELSE IF n < 273 + leap THEN 8
  ELSE IF n < 304 + leap THEN 9
  ELSE IF n < 334 + leap THEN 10
  ELSE 11

MonthFromTime(t) ==
  MonthFromDay(DayWithinYear(t), IF InLeapYear(YearFromTime(t)) THEN 1 ELSE 0)

\* getDate / getUTCDate
DateFromTime(t) ==
  DayWithinYear(t) - DaysBeforeMonth(YearFromTime(t), MonthFromTime(t)) + 1

\* getDay / getUTCDay: 0 is Sunday.
WeekDay(t) == (Day(t) + 4) % 7

(***************************************************************************)
(* Strings: sequences of one-character strings.                            *)
(***************************************************************************)
DigitChars == <<"0", "1", "2", "3", "4", "5", "6", "7", "8", "9">>

Letters ==
  {"A", "B", "C", "D", "E", "F", "G", "H", "I", "J", "K", "L", "M",
   "N", "O", "P", "Q", "R", "S", "T", "U", "V", "W", "X", "Y", "Z",
   "a", "b", "c", "d", "e", "f", "g", "h", "i", "j", "k", "l", "m",
   "n", "o", "p", "q", "r", "s", "t", "u", "v", "w", "x", "y", "z"}

\* \d, \s and [A-Za-z] of the regular expressions.
IsDigit(c) == \E i \in 1..10 : DigitChars[i] = c
IsSpace(c) == c \in {" ", "\t", "\n", "\r"}
IsAlpha(c) == c \in Letters

\* Number.prototype.toString and the ${n} of a template literal, for n >= 0.
RECURSIVE NumberToString(_)
NumberToString(n) ==
  IF n < 10 THEN <<DigitChars[n + 1]>>
  ELSE NumberToString(n \div 10) \o <<DigitChars[(n % 10) + 1]>>

\* toLocaleString('en-US', {month: 'short'}) of month m (0 = January).
MonthShort(m) ==
  <<<<"J", "a", "n">>, <<"F", "e", "b">>, <<"M", "a", "r">>, <<"A", "p", "r">>,
    <<"M", "a", "y">>, <<"J", "u", "n">>, <<"J", "u", "l">>, <<"A", "u", "g">>,
    <<"S", "e", "p">>, <<"O", "c", "t">>, <<"N", "o", "v">>, <<"D", "e", "c">>>>[m + 1]

\* The four label patterns tested on timeColumns[0].
AllDigits(s, from, to) == \A i \in from..to : IsDigit(s[i])

\* The year pattern without its ^ anchor: /\d{4}$/.
IsYearLabelUnanchored(s) == Len(s) >= 4 /\ AllDigits(s, Len(s) - 3, Len(s))

\* /^\d{4}$/
IsYearLabel(s) == Len(s) = 4 /\ AllDigits(s, 1, 4)

\* /^Q[1-4]\s\d{4}$/
IsQuarterLabel(s) ==
  /\ Len(s) = 7
  /\ s[1] = "Q"
  /\ s[2] \in {"1", "2", "3", "4"}
  /\ IsSpace(s[3])
  /\ AllDigits(s, 4, 7)

\* /^[A-Za-z]{3}\s\d{4}$/
IsMonthLabel(s) ==
  /\ Len(s) = 8
  /\ \A i \in 1..3 : IsAlpha(s[i])
  /\ IsSpace(s[4])
  /\ AllDigits(s, 5, 8)

\* /^W\d{1,2}\s\d{4}$/
IsWeekLabel(s) ==
  /\ Len(s) \in {7, 8}
  /\ s[1] = "W"
  /\ AllDigits(s, 2, Len(s) - 5)
  /\ IsSpace(s[Len(s) - 4])
  /\ AllDigits(s, Len(s) - 3, Len(s))

\* The labels the resolver builds for the reference date.
YearLabel(y) == NumberToString(y)
QuarterLabel(q, y) == <<"Q">> \o NumberToString(q) \o <<" ">> \o NumberToString(y)
MonthLabel(m, y) == MonthShort(m) \o <<" ">> \o NumberToString(y)
WeekLabel(w, y) == <<"W">> \o NumberToString(w) \o <<" ">> \o NumberToString(y)

\* Array.prototype.indexOf: the 0-based index of the first element equal to
\* label, -1 when there is none.
indexOf(timeColumns, label) ==
  IF \E i \in 1..Len(timeColumns) : timeColumns[i] = label
  THEN (CHOOSE i \in 1..Len(timeColumns) :
          /\ timeColumns[i] = label
          /\ \A j \in 1..(i - 1) : timeColumns[j] # label) - 1
  ELSE -1

(***************************************************************************)
(* The resolver of the "today" marker.  A position is the column index     *)
(* (0-based) and the percentage, kept as the quotient num / den the code   *)
(* divides.                                                                *)
(***************************************************************************)
Null == [kind |-> "null"]
Position(i, n, d) == [kind |-> "pos", index |-> i, num |-> n, den |-> d]

\* getWeek without "|| 7": Sunday counts as day 0 of the week that follows.
getWeekSundayZero(t) ==
  LET d0 == MakeDate(YearFromTime(t), MonthFromTime(t), DateFromTime(t))
      d == d0 + (4 - WeekDay(d0)) * MsPerDay
      yearStart == MakeDate(YearFromTime(d), 0, 1)
      n == ((d - yearStart) \div MsPerDay) + 1
  IN  (n + 6) \div 7

\* getWeek: the Thursday of the date's week, then the week of its year.
getWeek(t) ==
  LET d0 == MakeDate(YearFromTime(t), MonthFromTime(t), DateFromTime(t))
      dayNum == IF WeekDay(d0) = 0 THEN 7 ELSE WeekDay(d0)
      d == d0 + (4 - dayNum) * MsPerDay
      yearStart == MakeDate(YearFromTime(d), 0, 1)
      n == ((d - yearStart) \div MsPerDay) + 1
  IN  (n + 6) \div 7

\* Year columns with the year ending at 1 Jan of the next year.
YearPositionFullYear(t, timeColumns) ==
  LET todayYear == YearFromTime(t)
      index == indexOf(timeColumns, YearLabel(todayYear))
      startOfYear == MakeDate(todayYear, 0, 1)
      endOfYear == MakeDate(todayYear + 1, 0, 1)
  IN  IF index = -1 THEN Null
      ELSE Position(index, t - startOfYear, endOfYear - startOfYear)

\* Year columns.
YearPosition(t, timeColumns) ==
  LET todayYear == YearFromTime(t)
      index == indexOf(timeColumns, YearLabel(todayYear))
      startOfYear == MakeDate(todayYear, 0, 1)
      endOfYear == MakeDate(todayYear, 11, 31)
  IN  IF index = -1 THEN Null
      ELSE Position(index, t - startOfYear, endOfYear - startOfYear)

\* Quarter columns.
QuarterPosition(t, timeColumns) ==
  LET todayYear == YearFromTime(t)
      month == MonthFromTime(t)
      quarter == (month \div 3) + 1
      index == indexOf(timeColumns, QuarterLabel(quarter, todayYear))
      quarterStartMonth == (quarter - 1) * 3
      startOfQuarter == MakeDate(todayYear, quarterStartMonth, 1)
      endOfQuarter == MakeDate(todayYear, quarterStartMonth + 3, 0)
  IN  IF index = -1 THEN Null
      ELSE Position(index, t - startOfQuarter, endOfQuarter - startOfQuarter)

\* Month columns with the length of the month before: new Date(y, m, 0).
MonthPositionPrevMonth(t, timeColumns) ==
  LET todayYear == YearFromTime(t)
      index == indexOf(timeColumns, MonthLabel(MonthFromTime(t), todayYear))
      endOfMonth == MakeDate(todayYear, MonthFromTime(t), 0)
      dayInMonth == DateFromTime(t)
      totalDays == DateFromTime(endOfMonth)
  IN  IF index = -1 THEN Null
      ELSE Position(index, dayInMonth, totalDays)

\* Month columns.
MonthPosition(t, timeColumns) ==
  LET todayYear == YearFromTime(t)
      index == indexOf(timeColumns, MonthLabel(MonthFromTime(t), todayYear))
      endOfMonth == MakeDate(todayYear, MonthFromTime(t) + 1, 0)
      dayInMonth == DateFromTime(t)
      totalDays == DateFromTime(endOfMonth)
  IN  IF index = -1 THEN Null
      ELSE Position(index, dayInMonth, totalDays)

\* Week columns: (dayOfWeek + 0.5) / 7 is kept as (2 * dayOfWeek + 1) / 14.
WeekPosition(t, timeColumns) ==
  LET todayYear == YearFromTime(t)
      index == indexOf(timeColumns, WeekLabel(getWeek(t), todayYear))
      dayOfWeek == WeekDay(t)
  IN  IF index = -1 THEN Null
      ELSE Position(index, 2 * dayOfWeek + 1, 2 * 7)

findTodayColumnPosition(t, timeColumns) ==
  IF Len(timeColumns) = 0 THEN Null
  ELSE LET firstCol == timeColumns[1]
       IN  IF IsYearLabel(firstCol) THEN YearPosition(t, timeColumns)
           ELSE IF IsQuarterLabel(firstCol) THEN QuarterPosition(t, timeColumns)
           ELSE IF IsMonthLabel(firstCol) THEN MonthPosition(t, timeColumns)
           ELSE IF IsWeekLabel(firstCol) THEN WeekPosition(t, timeColumns)
           ELSE Null

(***************************************************************************)
(* The calendar, stated independently of the code, for the reference date  *)
(* as the caller writes it: year, month (1..12), day, hour.                *)
(***************************************************************************)
CalLeap(y) == y % 4 = 0 /\ (y % 100 # 0 \/ y % 400 = 0)
CalDaysInYear(y) == IF CalLeap(y) THEN 366 ELSE 365
CalMonthLen(y, m) ==
  IF m = 2 /\ CalLeap(y) THEN 29
  ELSE <<31, 28, 31, 30, 31, 30, 31, 31, 30, 31, 30, 31>>[m]
CalDayOfYear(y, m, d) ==
  <<0, 31, 59, 90, 120, 151, 181, 212, 243, 273, 304, 334>>[m] + d
    + (IF m > 2 /\ CalLeap(y) THEN 1 ELSE 0)
\* Days from 31 Dec of year 0 (proleptic Gregorian); day 1 is a Monday.
CalDayNumber(y, m, d) ==
  365 * (y - 1) + ((y - 1) \div 4) - ((y - 1) \div 100) + ((y - 1) \div 400)
    + CalDayOfYear(y, m, d)
\* 0 = Monday .. 6 = Sunday
CalIsoWeekDay(n) == (n - 1) % 7
CalQuarter(m) == ((m - 1) \div 3) + 1
CalQuarterLen(y, q) ==
  CalMonthLen(y, 3 * q - 2) + CalMonthLen(y, 3 * q - 1) + CalMonthLen(y, 3 * q)
CalDayOfQuarter(y, m, d) == CalDayOfYear(y, m, d) - CalDayOfYear(y, 3 * CalQuarter(m) - 2, 1) + 1
\* ISO 8601: week 1 of year y is the week (Monday to Sunday) that holds 4 Jan.
IsoWeekOneStart(y) ==
  CalDayNumber(y, 1, 4) - CalIsoWeekDay(CalDayNumber(y, 1, 4))
IsoYear(y, m, d) ==
  IF CalDayNumber(y, m, d) < IsoWeekOneStart(y) THEN y - 1
  ELSE IF CalDayNumber(y, m, d) >= IsoWeekOneStart(y + 1) THEN y + 1
  ELSE y
IsoWeek(y, m, d) ==
  ((CalDayNumber(y, m, d) - IsoWeekOneStart(IsoYear(y, m, d))) \div 7) + 1

(***************************************************************************)
(* Inputs of the resolver.                                                 *)
(***************************************************************************)
RefYears == ((ChartYear - YearSpan) .. (ChartYear + YearSpan)) \cup CenturyYears

RefDates ==
  {r \in [year : RefYears, month : 1..12, day : 1..31, hour : HourSet] :
     r.day <= CalMonthLen(r.year, r.month)}

\* new Date('YYYY-MM-DDTHH:00:00'): the time value of a reference date.
TimeValue(r) == MakeDate(r.year, r.month - 1, r.day) + r.hour

Malformed == <<"a", "b", "c">>

\* A label that misses the quarter pattern by its digit only: "Q5 <year>".
NearQuarter(y) == <<"Q", "5", " ">> \o NumberToString(y)

\* The labels a chart around the reference date may carry: per granularity
\* the label of the date's own column and a neighbouring column (for weeks,
\* the week number under its ISO year and under the calendar year); labels of
\* no known format before a year label; and labels of two granularities.
LabelPools(r) ==
  { {YearLabel(r.year), YearLabel(r.year + 1)},
    {QuarterLabel(CalQuarter(r.month), r.year),
     QuarterLabel((CalQuarter(r.month) % 4) + 1, r.year)},
    {MonthLabel(r.month - 1, r.year), MonthLabel(r.month % 12, r.year)},
    {WeekLabel(IsoWeek(r.year, r.month, r.day), IsoYear(r.year, r.month, r.day)),
     WeekLabel(IsoWeek(r.year, r.month, r.day), r.year),
     WeekLabel((IsoWeek(r.year, r.month, r.day) % 52) + 1, r.year)},
    {Malformed, NearQuarter(r.year), YearLabel(r.year)},
    {YearLabel(r.year), MonthLabel(r.month - 1, r.year)} }

SeqsUpTo(S, n) == UNION {[1..k -> S] : k \in 0..n}

ColumnLists(r) == UNION {SeqsUpTo(pool, MaxCols) : pool \in LabelPools(r)}

(***************************************************************************)
(* The back end: one record per request, in order of arrival, and the two  *)
(* process-wide caches.                                                    *)
(* File names are numbers standing for names in collation order, so that   *)
(* localeCompare is <.  The research text is a sequence of pieces: the     *)
(* start and end delimiters of a file and its extracted text.              *)
(***************************************************************************)
\* An upload carries at most MaxFiles files, under at most MaxFiles names.
MaxFiles == 2

\* callGemini(payload, retryCount = 3)
DefaultRetryCount == 3
\* 1000 * (attempt + 1) milliseconds of backoff
BackoffUnit == 1000

WordMime == "application/vnd.openxmlformats-officedocument.wordprocessingml.document"

\* What can make an attempt throw: fetch rejects, a non-2xx status, no
\* candidates[0].content, a blocked safety rating, text that JSON.parse rejects.
FailureKinds == {"network", "status", "envelope", "blocked", "parse"}

\* error.message of the error each failure throws.
ErrorMessage(k) ==
  CASE k = "network" -> "fetch failed"
    [] k = "status" -> "API call failed with status: <status> - <errorText>"
    [] k = "envelope" -> "Invalid response from AI API"
    [] k = "blocked" -> "API call blocked due to safety rating: <category>"
    [] k = "parse" -> "Unexpected token in JSON"
    [] k = "exhausted" -> "All API retry attempts failed."

ErrorPrefix(kind) ==
  IF kind = "chart" THEN "Error generating chart data: "
  ELSE "Error generating task analysis: "

NoResponse == [status |-> 0, body |-> <<>>]
NoQuery == [sent |-> FALSE]

IdleRequest ==
  [kind |-> "none", pc |-> "idle", files |-> <<>>, idx |-> 0, fileError |-> FALSE,
   attempt |-> 0, fetches |-> 0, sleeps |-> <<>>, failed |-> <<>>,
   query |-> NoQuery, response |-> NoResponse]

VARIABLES
  today,               \* the reference date
  timeColumns,         \* the chart's column labels
  position,            \* what findTodayColumnPosition returned, "none" before the call
  todayLines,          \* the today-line elements of the grid, each its left offset
  fileInput,           \* #file-input: the number of files selected
  dropzone,            \* #dropzone-prompt, #file-list-container and #file-list
  chartOutput,         \* #chart-output: its children
  errorMessage,        \* #error-message: textContent and style.display
  generateBtn,         \* #generate-btn: disabled
  loadingIndicator,    \* #loading-indicator: style.display
  submit,              \* handleChartGenerate: where it stands, how it last ended
  ganttData,           \* handleChartGenerate: the JSON its response carried
  modal,               \* #analysis-modal: <<>> when the document has none
  calls,               \* the calls of showAnalysisModal, in order of the clicks
  asks,                \* the calls of handleAskQuestion, in order
  reqs,                \* the requests of the back end
  researchTextCache,   \* server.js: the research text of the last upload
  researchFilesCache   \* server.js: its file names

todayVars == <<today, timeColumns, position, todayLines>>
pageVars ==
  <<fileInput, dropzone, chartOutput, errorMessage, generateBtn, loadingIndicator,
    submit, ganttData>>
modalVars == <<modal, calls, asks>>
frontVars == <<todayVars, pageVars, modalVars>>
serverVars == <<reqs, researchTextCache, researchFilesCache>>
vars == <<frontVars, serverVars>>

\* The server as started: no request yet, the caches as declared.
ServerStarted(n) ==
  /\ reqs = [r \in 1..n |-> IdleRequest]
  /\ researchTextCache = <<>>
  /\ researchFilesCache = <<>>

\* No payload: the value of ganttData before a response carries one.
NoData == [kind |-> "none"]

\* The form before its first submit: no file selected, nothing shown.
FormLoaded ==
  /\ fileInput = 0
  /\ dropzone = [promptHidden |-> FALSE, listHidden |-> TRUE, items |-> 0]
  /\ chartOutput = <<>>
  /\ errorMessage = [textContent |-> "", display |-> "none"]
  /\ generateBtn = [disabled |-> FALSE]
  /\ loadingIndicator = [display |-> "none"]
  /\ submit = [pc |-> "idle", result |-> "none", setupChart |-> "none"]
  /\ ganttData = NoData
  /\ modal = <<>>
  /\ calls = <<>>
  /\ asks = <<>>

\* The page before a chart is rendered, with the date setupChart uses.
PageLoaded ==
  /\ today = [year |-> ChartYear, month |-> 11, day |-> 13, hour |-> 12]
  /\ timeColumns = <<>>
  /\ position = [kind |-> "none"]
  /\ todayLines = <<>>
  /\ FormLoaded

InitToday ==
  /\ today \in RefDates
  /\ timeColumns \in ColumnLists(today)
  /\ position = [kind |-> "none"]
  /\ todayLines = <<>>
  /\ FormLoaded
  /\ ServerStarted(0)

\* addTodayLine without its "if (!position) return": a line at the left edge.
addTodayLineNoGuard ==
  /\ position.kind = "none"
  /\ position' = findTodayColumnPosition(TimeValue(today), timeColumns)
  /\ todayLines' =
       IF position' = Null THEN Append(todayLines, [num |-> 0, den |-> 1])
       ELSE Append(todayLines,
                   [num |-> position'.index * position'.den + position'.num,
                    den |-> position'.den])
  /\ UNCHANGED <<today, timeColumns>>
  /\ UNCHANGED <<pageVars, modalVars>>
  /\ UNCHANGED serverVars

\* addTodayLine(gridEl, timeColumns, today), on the grid setupChart has built
\* (its header label and header row exist).  The offset is kept in column
\* widths: (index + percentage), as num / den.
addTodayLine ==
  /\ position.kind = "none"
  /\ position' = findTodayColumnPosition(TimeValue(today), timeColumns)
  /\ todayLines' =
       IF position' = Null THEN todayLines
       ELSE Append(todayLines,
                   [num |-> position'.index * position'.den + position'.num,
                    den |-> position'.den])
  /\ UNCHANGED <<today, timeColumns>>
  /\ UNCHANGED <<pageVars, modalVars>>
  /\ UNCHANGED serverVars

NextToday == addTodayLine

SpecToday == InitToday /\ [][NextToday]_vars

(***************************************************************************)
(* The form and the renderer.  Optional values are sequences: <<>> is null *)
(* or undefined, <<v>> is v.  A JSON object is a record whose optional     *)
(* members say whether they are present.                                   *)
(***************************************************************************)
\* The file input holds at most MaxSelected files.
MaxSelected == 1
\* A chart payload has at most MaxChartCols columns and MaxRows rows.
MaxChartCols == 3
MaxRows == 2

Absent == [present |-> FALSE]
Array(items) == [present |-> TRUE, items |-> items]

\* Year columns that end with the year of the reference date.
ChartColumns(n) == [i \in 1..n |-> YearLabel(ChartYear - n + i)]

\* bar: {startCol, endCol}: 1-based, endCol exclusive; both null when the
\* date is unknown.
Bar(s, e) == [present |-> TRUE, startCol |-> <<s>>, endCol |-> <<e>>]
UndatedBar == [present |-> TRUE, startCol |-> <<>>, endCol |-> <<>>]
BarChoices(n) ==
  {Absent, UndatedBar}
    \cup {Bar(p[1], p[2]) : p \in {q \in (1..n) \X (1..(n + 1)) : q[1] < q[2]}}

\* The rows of data: swimlanes, tasks, and null in place of a row.
NullRow == [kind |-> "null"]
Row(isSwimlane, bar) == [kind |-> "row", isSwimlane |-> isSwimlane, bar |-> bar]
RowChoices(n) ==
  {NullRow, Row(TRUE, Absent), Row(TRUE, Bar(1, 2))}
    \cup {Row(FALSE, b) : b \in BarChoices(n)}

\* What res.json(ganttData) may carry: null, or an object with or without
\* timeColumns and data.
Payloads ==
  {Null}
    \cup {[kind |-> "object", timeColumns |-> Absent, data |-> d] :
            d \in {Absent} \cup {Array(r) : r \in SeqsUpTo(RowChoices(0), MaxRows)}}
    \cup UNION {{[kind |-> "object", timeColumns |-> Array(ChartColumns(n)), data |-> d] :
                   d \in {Absent} \cup {Array(r) : r \in SeqsUpTo(RowChoices(n), MaxRows)}} :
                 n \in 0..MaxChartCols}

\* A body that response.json() rejects.
NotJson == [kind |-> "not json"]

\* The error bodies of the back end, and an object without error.
ErrorBodies ==
  {NotJson, [kind |-> "object", error |-> <<>>],
   [kind |-> "object", error |-> <<"Error processing uploaded files.">>],
   [kind |-> "object", error |-> <<ErrorPrefix("chart") \o ErrorMessage("envelope")>>]}

\* How fetch('/generate-chart') and the reading of its body end.
FetchOutcomes ==
  {[fetch |-> "rejected"]}
    \cup {[fetch |-> "resolved", ok |-> FALSE, json |-> j] : j \in ErrorBodies}
    \cup {[fetch |-> "resolved", ok |-> TRUE, json |-> j] : j \in {NotJson} \cup Payloads}

NoFileText == "Error: Please upload at least one research document."
InvalidStructure == "Invalid chart data structure received from server"
NothingFound == "The AI was unable to find any tasks or time columns in the provided documents. Please check your files or try a different prompt."

\* Steps 3 and 4 of handleChartGenerate: the message of the error thrown
\* before the payload is looked at, <<>> when there is none.
ResponseError(o) ==
  IF o.fetch = "rejected" THEN <<"Failed to fetch">>
  ELSE IF o.json = NotJson THEN <<"Unexpected token < in JSON at position 0">>
  ELSE IF ~o.ok
    THEN (IF o.json.error # <<>> THEN o.json.error ELSE <<"Server error: <status>">>)
  ELSE <<>>

\* Step 5 without the check for empty lists.
ValidateNoEmptyCheck(d) ==
  IF d.kind = "null" \/ ~d.timeColumns.present \/ ~d.data.present
    THEN <<InvalidStructure>>
  ELSE <<>>

\* Step 5: the two checks of the payload; the message thrown, <<>> when the
\* payload passes.
Validate(d) ==
  IF d.kind = "null" \/ ~d.timeColumns.present \/ ~d.data.present
    THEN <<InvalidStructure>>
  ELSE IF Len(d.timeColumns.items) = 0 \/ Len(d.data.items) = 0
    THEN <<NothingFound>>
  ELSE <<>>

\* `${bar.startCol}` and `${bar.endCol}`
ColToString(c) == IF c = <<>> THEN <<"n", "u", "l", "l">> ELSE NumberToString(c[1])

\* A task with bar data gets a bar and the click listeners.
HasBar(row) == ~row.isSwimlane /\ row.bar.present /\ row.bar.startCol # <<>>

\* The bar placed one grid line to the right.
RenderRowShifted(row, numCols) ==
  [label |-> [class |-> IF row.isSwimlane THEN "swimlane" ELSE "task",
              clickable |-> HasBar(row)],
   barArea |->
     [class |-> IF row.isSwimlane THEN "swimlane" ELSE "task",
      gridColumn |-> [start |-> 2, span |-> numCols],
      gridTemplateColumns |-> numCols,
      cells |-> [i \in 1..numCols |-> i],
      bars |-> IF HasBar(row)
               THEN <<[gridColumn |->
                         NumberToString(row.bar.startCol[1] + 1) \o <<" ", "/", " ">>
                           \o NumberToString(row.bar.endCol[1] + 1)]>>
               ELSE <<>>,
      clickable |-> HasBar(row)]]

\* One pass of the loop over ganttData.data: the label cell and the bar area
\* of a row, the bar with gridColumn `${bar.startCol} / ${bar.endCol}`.
RenderRow(row, numCols) ==
  [label |-> [class |-> IF row.isSwimlane THEN "swimlane" ELSE "task",
              clickable |-> HasBar(row)],
   barArea |->
     [class |-> IF row.isSwimlane THEN "swimlane" ELSE "task",
      gridColumn |-> [start |-> 2, span |-> numCols],
      gridTemplateColumns |-> numCols,
      cells |-> [i \in 1..numCols |-> i],
      bars |-> IF HasBar(row)
               THEN <<[gridColumn |->
                         ColToString(row.bar.startCol) \o <<" ", "/", " ">>
                           \o ColToString(row.bar.endCol)]>>
               ELSE <<>>,
      clickable |-> HasBar(row)]]

\* row.isSwimlane of a null row throws a TypeError.
Renderable(d) == \A i \in 1..Len(d.data.items) : d.data.items[i] # NullRow

\* The chart wrapper setupChart appends to the container: the grid with its
\* header cells and rows.
ChartWrapper(d) ==
  [gridTemplateColumns |-> Len(d.timeColumns.items) + 1,
   header |-> d.timeColumns.items,
   rows |-> [i \in 1..Len(d.data.items) |->
               RenderRow(d.data.items[i], Len(d.timeColumns.items))]]

\* The change listener of the file input.
FileInputChange ==
  /\ \E n \in 0..MaxSelected :
       /\ fileInput' = n
       /\ dropzone' = IF n > 0
                      THEN [promptHidden |-> TRUE, listHidden |-> FALSE, items |-> n]
                      ELSE [dropzone EXCEPT !.promptHidden = FALSE, !.listHidden = TRUE]
  /\ UNCHANGED <<chartOutput, errorMessage, generateBtn, loadingIndicator, submit, ganttData>>
  /\ UNCHANGED <<todayVars, modalVars, serverVars>>

\* handleChartGenerate up to its fetch: without a file the error is shown and
\* the handler returns; with files the old chart is cleared, with its grid,
\* column labels and today line, and the request sent.  The form is submitted
\* through its button, which must be enabled.
Submit ==
  /\ submit.pc = "idle"
  /\ ~generateBtn.disabled
  /\ IF fileInput = 0
     THEN /\ errorMessage' = [textContent |-> NoFileText, display |-> "block"]
          /\ submit' = [pc |-> "idle", result |-> "failed", setupChart |-> "none"]
          /\ UNCHANGED <<generateBtn, loadingIndicator, chartOutput>>
          /\ UNCHANGED <<timeColumns, position, todayLines>>
     ELSE /\ generateBtn' = [disabled |-> TRUE]
          /\ loadingIndicator' = [display |-> "flex"]
          /\ errorMessage' = [errorMessage EXCEPT !.display = "none"]
          /\ chartOutput' = <<>>
          /\ timeColumns' = <<>>
          /\ position' = [kind |-> "none"]
          /\ todayLines' = <<>>
          /\ submit' = [pc |-> "fetch", result |-> "pending", setupChart |-> "none"]
  /\ ganttData' = NoData
  /\ UNCHANGED <<today, fileInput, dropzone>>
  /\ UNCHANGED <<modalVars, serverVars>>

\* The catch block without the finally block: the error is shown, the button
\* and the loading indicator stay as the submit left them.
ShowsErrorNoFinally(message, called) ==
  /\ errorMessage' = [textContent |-> "Error: " \o message, display |-> "block"]
  /\ submit' = [pc |-> "idle", result |-> "failed", setupChart |-> called]
  /\ UNCHANGED <<generateBtn, loadingIndicator>>
  /\ UNCHANGED <<chartOutput, timeColumns, position, todayLines>>

\* The catch block and the finally block.
ShowsError(message, called) ==
  /\ errorMessage' = [textContent |-> "Error: " \o message, display |-> "block"]
  /\ generateBtn' = [disabled |-> FALSE]
  /\ loadingIndicator' = [display |-> "none"]
  /\ submit' = [pc |-> "idle", result |-> "failed", setupChart |-> called]
  /\ UNCHANGED <<chartOutput, timeColumns, position, todayLines>>

\* setupChart(ganttData) to its end, addTodayLine included, and the finally
\* block.
Renders(d) ==
  /\ chartOutput' = <<ChartWrapper(d)>>
  /\ timeColumns' = d.timeColumns.items
  /\ position' = findTodayColumnPosition(TimeValue(today), timeColumns')
  /\ todayLines' =
       IF position' = Null THEN <<>>
       ELSE <<[num |-> position'.index * position'.den + position'.num,
               den |-> position'.den]>>
  /\ generateBtn' = [disabled |-> FALSE]
  /\ loadingIndicator' = [display |-> "none"]
  /\ submit' = [pc |-> "idle", result |-> "rendered", setupChart |-> "returned"]
  /\ UNCHANGED errorMessage

\* The fetch settles and the handler runs to its end: the response is read,
\* the payload checked and rendered.  setupChart empties the container before
\* it builds the chart, and appends the chart after the last row.
ResponseArrives ==
  /\ submit.pc = "fetch"
  /\ \E o \in FetchOutcomes :
       IF ResponseError(o) # <<>>
       THEN ganttData' = NoData /\ ShowsError(ResponseError(o)[1], "none")
       ELSE /\ ganttData' = o.json
            /\ IF Validate(o.json) # <<>> THEN ShowsError(Validate(o.json)[1], "none")
               ELSE IF Renderable(o.json) THEN Renders(o.json)
               ELSE ShowsError("Cannot read properties of null (reading 'isSwimlane')", "threw")
  /\ UNCHANGED <<today, fileInput, dropzone>>
  /\ UNCHANGED <<modalVars, serverVars>>

NextPage == FileInputChange \/ Submit \/ ResponseArrives

InitPage == PageLoaded /\ ServerStarted(0)

SpecPage == InitPage /\ [][NextPage]_vars

\* The form with a fetch that settles: a response, an error status or a
\* rejection arrives for every request sent.  The payloads are those of one
\* row at most.
OneRowResponseArrives ==
  /\ ResponseArrives
  /\ (ganttData'.kind = "object" /\ ganttData'.data.present)
       => Len(ganttData'.data.items) <= 1

NextPageSettles == FileInputChange \/ Submit \/ OneRowResponseArrives

SpecPageSettles ==
  InitPage /\ [][NextPageSettles]_vars /\ WF_vars(OneRowResponseArrives)

(***************************************************************************)
(* The analysis modal and its chat.  showAnalysisModal runs to its fetch in *)
(* one step and from the response to its end in another; handleAskQuestion  *)
(* likewise.  The document holds at most one #analysis-modal, because       *)
(* showAnalysisModal removes the old one before it appends the new one.     *)
(***************************************************************************)
MaxTasks == 2
MaxClicks == 2
MaxQuestions == 1

\* The chart whose rows are clicked: MaxTasks dated tasks under one column.
ClickableChart ==
  [kind |-> "object", timeColumns |-> Array(ChartColumns(1)),
   data |-> Array([i \in 1..MaxTasks |-> Row(FALSE, Bar(1, 2))])]

\* taskIdentifier of row i: { taskName: row.title, entity: row.entity }.
\* Titles are numbers: the title of row i is i, and so is its entity.
TaskIdentifier(i) == [taskName |-> i, entity |-> i]

\* The routes the back end registers with app.post.
Routes == {"/generate-chart", "/get-task-analysis"}

AnalysisPath == "/get-task-analysis"
AskPath == "/ask-question"

\* What Express answers to a POST no route matches: 404 with an HTML page.
NotFound == [fetch |-> "resolved", ok |-> FALSE, json |-> NotJson]

\* The analysis of task t as res.json(analysisData) carries it, with or
\* without the status the schema requires.
Analysis(t, hasStatus) ==
  [kind |-> "object", taskName |-> t.taskName, hasStatus |-> hasStatus]

\* How fetch('/get-task-analysis') for task t and the reading of its body end.
AnalysisOutcomes(t) ==
  IF AnalysisPath \in Routes
    THEN {[fetch |-> "rejected"]}
           \cup {[fetch |-> "resolved", ok |-> FALSE, json |-> j] :
                   j \in {NotJson, [kind |-> "object", error |-> <<>>],
                          [kind |-> "object",
                           error |-> <<ErrorPrefix("analysis") \o ErrorMessage("envelope")>>]}}
           \cup {[fetch |-> "resolved", ok |-> TRUE, json |-> j] :
                   j \in {NotJson, Analysis(t, TRUE), Analysis(t, FALSE)}}
  ELSE {[fetch |-> "rejected"], NotFound}

\* How fetch('/ask-question') and the reading of its body end.
AskOutcomes ==
  IF AskPath \in Routes
    THEN {[fetch |-> "rejected"],
          [fetch |-> "resolved", ok |-> TRUE,
           json |-> [kind |-> "object", answer |-> "<answer>"]]}
  ELSE {[fetch |-> "rejected"], NotFound}

\* The message of the error thrown before the body is used, <<>> when there
\* is none: throw new Error(err.error || "Server error").
ModalError(o) ==
  IF o.fetch = "rejected" THEN <<"Failed to fetch">>
  ELSE IF o.json = NotJson THEN <<"Unexpected token < in JSON at position 0">>
  ELSE IF ~o.ok
    THEN (IF o.json.error # <<>> THEN o.json.error ELSE <<"Server error">>)
  ELSE <<>>

Spinner == [kind |-> "spinner"]
StatusOfUndefined == "Cannot read properties of undefined (reading 'replace')"

\* A click on the label or the bar area of row i: showAnalysisModal up to
\* its fetch.
ShowAnalysisModal(i) ==
  /\ chartOutput # <<>>
  /\ i \in DOMAIN chartOutput[1].rows
  /\ chartOutput[1].rows[i].label.clickable
  /\ Len(calls) < MaxClicks
  /\ modal' = <<[id |-> Len(calls) + 1, title |-> "Analyzing...",
                 body |-> Spinner, chat |-> <<>>]>>
  /\ calls' = Append(calls, [task |-> TaskIdentifier(i), pc |-> "fetch",
                             path |-> AnalysisPath, ok |-> FALSE])
  /\ UNCHANGED <<asks, todayVars, pageVars, serverVars>>

\* The close button, or a click on the overlay: modalOverlay.remove().
CloseModal ==
  /\ modal # <<>>
  /\ modal' = <<>>
  /\ UNCHANGED <<calls, asks, todayVars, pageVars, serverVars>>

\* The modal after call c has written outcome o into it.  The handler finds
\* the title and the body in the document, not in the modal it created.
Populated(m, c, o) ==
  IF ModalError(o) # <<>>
    THEN [m EXCEPT !.body = [kind |-> "error", by |-> c, message |-> ModalError(o)[1]],
                   !.chat = <<>>]
  ELSE IF ~o.json.hasStatus
    THEN [m EXCEPT !.title = o.json.taskName,
                   !.body = [kind |-> "error", by |-> c, message |-> StatusOfUndefined],
                   !.chat = <<>>]
  ELSE [m EXCEPT !.title = o.json.taskName,
                 !.body = [kind |-> "analysis", by |-> c, taskName |-> o.json.taskName],
                 !.chat = <<[id |-> c, task |-> calls[c].task, history |-> <<>>]>>]

\* The response to call c arrives: steps 4 to 7 of showAnalysisModal and its
\* catch.  Without a modal in the document the handler throws, its catch
\* throws again, and the promise of the call is rejected with no handler.
AnalysisArrives(c) ==
  /\ c \in DOMAIN calls
  /\ calls[c].pc = "fetch"
  /\ \E o \in AnalysisOutcomes(calls[c].task) :
       /\ modal' = IF modal = <<>> THEN <<>> ELSE <<Populated(modal[1], c, o)>>
       /\ calls' = [calls EXCEPT ![c].pc = IF modal = <<>> THEN "unhandled" ELSE "done",
                                 ![c].ok = (ModalError(o) = <<>> /\ o.json.hasStatus)]
  /\ UNCHANGED <<asks, todayVars, pageVars, serverVars>>

\* The chat form is submitted: handleAskQuestion up to its fetch.  An empty
\* question returns at once.
AskQuestion ==
  /\ modal # <<>>
  /\ modal[1].chat # <<>>
  /\ Len(asks) < MaxQuestions
  /\ \E question \in {"", "why?"} :
       IF question = "" THEN UNCHANGED <<modal, asks>>
       ELSE /\ modal' = <<[modal[1] EXCEPT !.chat[1].history =
                             @ \o <<[class |-> "user", content |-> question],
                                    [class |-> "llm", content |-> "<spinner>"]>>]>>
            /\ asks' = Append(asks,
                 [pc |-> "fetch", path |-> AskPath,
                  body |-> [taskName |-> modal[1].chat[1].task.taskName,
                            entity |-> modal[1].chat[1].task.entity,
                            question |-> question],
                  chat |-> modal[1].chat[1].id,
                  loadingMessage |-> Len(modal[1].chat[1].history) + 2,
                  response |-> [fetch |-> "none"], shown |-> "<spinner>"])
  /\ UNCHANGED <<calls, todayVars, pageVars, serverVars>>

\* What handleAskQuestion writes over the spinner.
AnswerText(o) ==
  IF ModalError(o) # <<>> THEN "Sorry, an error occurred: " \o ModalError(o)[1]
  ELSE o.json.answer

\* The response to question a arrives.  loadingMessage is the element the
\* call appended; it is written whether or not it is still in the document.
AnswerArrives(a) ==
  /\ a \in DOMAIN asks
  /\ asks[a].pc = "fetch"
  /\ \E o \in AskOutcomes :
       /\ asks' = [asks EXCEPT ![a].pc = "done", ![a].response = o,
                               ![a].shown = AnswerText(o)]
       /\ modal' =
            IF modal # <<>> /\ modal[1].chat # <<>> /\ modal[1].chat[1].id = asks[a].chat
              THEN <<[modal[1] EXCEPT
                        !.chat[1].history[asks[a].loadingMessage].content = AnswerText(o)]>>
            ELSE modal
  /\ UNCHANGED <<calls, todayVars, pageVars, serverVars>>

NextModal ==
  \/ \E i \in 1..MaxTasks : ShowAnalysisModal(i)
  \/ CloseModal
  \/ \E c \in 1..MaxClicks : AnalysisArrives(c)
  \/ AskQuestion
  \/ \E a \in 1..MaxQuestions : AnswerArrives(a)

\* The page after setupChart has rendered the chart of ClickableChart.
ChartRendered ==
  /\ today = [year |-> ChartYear, month |-> 11, day |-> 13, hour |-> 12]
  /\ timeColumns = ClickableChart.timeColumns.items
  /\ position = findTodayColumnPosition(TimeValue(today), timeColumns)
  /\ todayLines = <<[num |-> position.index * position.den + position.num,
                     den |-> position.den]>>
  /\ fileInput = 1
  /\ dropzone = [promptHidden |-> TRUE, listHidden |-> FALSE, items |-> 1]
  /\ chartOutput = <<ChartWrapper(ClickableChart)>>
  /\ errorMessage = [textContent |-> "", display |-> "none"]
  /\ generateBtn = [disabled |-> FALSE]
  /\ loadingIndicator = [display |-> "none"]
  /\ submit = [pc |-> "idle", result |-> "rendered", setupChart |-> "returned"]
  /\ ganttData = ClickableChart
  /\ modal = <<>>
  /\ calls = <<>>
  /\ asks = <<>>

InitModal == ChartRendered /\ ServerStarted(0)

SpecModal == InitModal /\ [][NextModal]_vars

(***************************************************************************)
(* The back end's handlers.  A handler runs to its next await in one step: *)
(* the awaits are mammoth.extractRawText, fetch (with the reading of its   *)
(* response) and the backoff timer.                                        *)
(***************************************************************************)
FileNames == 1..MaxFiles

\* The uploads of request r: up to MaxFiles different files in any order,
\* each a word-processing document or plain text.  Two files of one upload
\* may carry the same name (multer keeps both).
Uploads(r) ==
  {f \in SeqsUpTo([name : FileNames, mimetype : {WordMime, "text/plain"}, owner : {r}], MaxFiles) :
     \A i, j \in 1..Len(f) : i # j => f[i] # f[j]}

\* req.files.sort((a, b) => a.originalname.localeCompare(b.originalname))
RECURSIVE InsertByName(_, _)
InsertByName(f, sorted) ==
  IF sorted = <<>> THEN <<f>>
  ELSE IF f.name < Head(sorted).name THEN <<f>> \o sorted
  ELSE <<Head(sorted)>> \o InsertByName(f, Tail(sorted))

RECURSIVE SortByName(_)
SortByName(files) ==
  IF files = <<>> THEN <<>>
  ELSE InsertByName(files[Len(files)], SortByName(SubSeq(files, 1, Len(files) - 1)))

StartOfFile(f) == [piece |-> "start", name |-> f.name]
EndOfFile(f) == [piece |-> "end", name |-> f.name]
\* result.value, or file.buffer.toString('utf8')
TextOfFile(f) == [piece |-> "text", of |-> f]

\* The loop with an await on every file, plain text included: it stops at
\* file i whatever its type.
ExtractFromAwaitsAll(text, names, files, i) ==
  IF i > Len(files) THEN [text |-> text, names |-> names, wait |-> 0]
  ELSE [text |-> Append(text, StartOfFile(files[i])),
        names |-> Append(names, files[i].name),
        wait |-> i]

\* The loop over sortedFiles from file i, up to the await of a
\* word-processing file (wait is its index) or to the end (wait = 0).
RECURSIVE ExtractFrom(_, _, _, _)
ExtractFrom(text, names, files, i) ==
  IF i > Len(files) THEN [text |-> text, names |-> names, wait |-> 0]
  ELSE IF files[i].mimetype = WordMime
    THEN [text |-> Append(text, StartOfFile(files[i])),
          names |-> Append(names, files[i].name),
          wait |-> i]
  ELSE ExtractFrom(text \o <<StartOfFile(files[i]), TextOfFile(files[i]), EndOfFile(files[i])>>,
                   Append(names, files[i].name), files, i + 1)

\* callGemini up to its first fetch; the query embeds the research text.
CallGemini(req, research) ==
  IF 0 < DefaultRetryCount
  THEN [req EXCEPT !.pc = "fetch", !.attempt = 0, !.fetches = 1,
                   !.query = [sent |-> TRUE, research |-> research]]
  ELSE [req EXCEPT !.pc = "done",
                   !.query = [sent |-> TRUE, research |-> research],
                   !.response = [status |-> 500,
                                 body |-> [error |-> ErrorPrefix(req.kind) \o ErrorMessage("exhausted")]]]

\* The extraction loop has stopped at e: wait for mammoth, or go on to the call.
AfterExtraction(req, e) ==
  IF e.wait > 0 THEN [req EXCEPT !.pc = "extract", !.idx = e.wait]
  ELSE CallGemini(req, e.text)

\* Requests are numbered in their order of arrival: r is the next to arrive.
Arrives(r) ==
  /\ reqs[r].pc = "idle"
  /\ \A q \in DOMAIN reqs : q < r => reqs[q].pc # "idle"

\* The handler without its two resets: the new files are added to the caches
\* of the upload before.
GenerateChartNoReset(r) ==
  /\ Arrives(r)
  /\ \E files \in Uploads(r) :
       LET sortedFiles == SortByName(files)
           e == ExtractFrom(researchTextCache, researchFilesCache, sortedFiles, 1)
       IN  /\ researchTextCache' = e.text
           /\ researchFilesCache' = e.names
           /\ reqs' = [reqs EXCEPT ![r] =
                AfterExtraction([IdleRequest EXCEPT !.kind = "chart", !.files = sortedFiles], e)]
  /\ UNCHANGED frontVars

\* POST /generate-chart arrives: the caches are cleared and the files read.
GenerateChart(r) ==
  /\ Arrives(r)
  /\ \E files \in Uploads(r) :
       LET sortedFiles == SortByName(files)
           e == ExtractFrom(<<>>, <<>>, sortedFiles, 1)
       IN  /\ researchTextCache' = e.text
           /\ researchFilesCache' = e.names
           /\ reqs' = [reqs EXCEPT ![r] =
                AfterExtraction([IdleRequest EXCEPT !.kind = "chart", !.files = sortedFiles], e)]
  /\ UNCHANGED frontVars

\* mammoth.extractRawText resolves: the text and the end delimiter are added
\* to the cache as it is now, and the loop goes on.
MammothResolves(r) ==
  /\ reqs[r].pc = "extract"
  /\ LET f == reqs[r].files[reqs[r].idx]
         e == ExtractFrom(researchTextCache \o <<TextOfFile(f), EndOfFile(f)>>,
                          researchFilesCache, reqs[r].files, reqs[r].idx + 1)
     IN  /\ researchTextCache' = e.text
         /\ researchFilesCache' = e.names
         /\ reqs' = [reqs EXCEPT ![r] = AfterExtraction(reqs[r], e)]
  /\ UNCHANGED frontVars

\* The try block inside the loop: a file that cannot be read is logged and
\* left out, and the request goes on with the files that remain.
MammothRejectsSkipsFile(r) ==
  /\ reqs[r].pc = "extract"
  /\ LET f == reqs[r].files[reqs[r].idx]
         e == ExtractFrom(Append(researchTextCache, EndOfFile(f)),
                          researchFilesCache, reqs[r].files, reqs[r].idx + 1)
     IN  /\ researchTextCache' = e.text
         /\ researchFilesCache' = e.names
         /\ reqs' = [reqs EXCEPT ![r] =
              AfterExtraction([reqs[r] EXCEPT !.fileError = TRUE], e)]
  /\ UNCHANGED frontVars

\* The catch block with a reset of both caches before it answers 500.
MammothRejectsClearsCache(r) ==
  /\ reqs[r].pc = "extract"
  /\ reqs' = [reqs EXCEPT ![r].pc = "done",
                          ![r].fileError = TRUE,
                          ![r].response = [status |-> 500,
                                           body |-> [error |-> "Error processing uploaded files."]]]
  /\ researchTextCache' = <<>>
  /\ researchFilesCache' = <<>>
  /\ UNCHANGED frontVars

\* mammoth.extractRawText rejects: the handler logs the error (console.error,
\* kept in fileError) and answers 500.
MammothRejects(r) ==
  /\ reqs[r].pc = "extract"
  /\ reqs' = [reqs EXCEPT ![r].pc = "done",
                          ![r].fileError = TRUE,
                          ![r].response = [status |-> 500,
                                           body |-> [error |-> "Error processing uploaded files."]]]
  /\ UNCHANGED <<researchTextCache, researchFilesCache>>
  /\ UNCHANGED frontVars

\* The handler with a query that leaves the research text out.
GetTaskAnalysisNoResearch(r) ==
  /\ Arrives(r)
  /\ \E complete \in BOOLEAN :
       reqs' = [reqs EXCEPT ![r] =
         IF complete
         THEN CallGemini([IdleRequest EXCEPT !.kind = "analysis"], <<>>)
         ELSE [IdleRequest EXCEPT !.kind = "analysis", !.pc = "done",
                 !.response = [status |-> 400,
                               body |-> [error |-> "Missing taskName or entity"]]]]
  /\ UNCHANGED <<researchTextCache, researchFilesCache>>
  /\ UNCHANGED frontVars

\* POST /get-task-analysis arrives, with or without taskName and entity.
GetTaskAnalysis(r) ==
  /\ Arrives(r)
  /\ \E complete \in BOOLEAN :
       reqs' = [reqs EXCEPT ![r] =
         IF complete
         THEN CallGemini([IdleRequest EXCEPT !.kind = "analysis"], researchTextCache)
         ELSE [IdleRequest EXCEPT !.kind = "analysis", !.pc = "done",
                 !.response = [status |-> 400,
                               body |-> [error |-> "Missing taskName or entity"]]]]
  /\ UNCHANGED <<researchTextCache, researchFilesCache>>
  /\ UNCHANGED frontVars

\* An attempt succeeds: callGemini returns the parsed JSON, the handler sends it.
GeminiSucceeds(r) ==
  /\ reqs[r].pc = "fetch"
  /\ reqs' = [reqs EXCEPT ![r].pc = "done",
                          ![r].response = [status |-> 200, body |-> [json |-> r]]]
  /\ UNCHANGED <<researchTextCache, researchFilesCache>>
  /\ UNCHANGED frontVars

\* The catch block with "attempt > retryCount - 1": the last failure starts
\* one more backoff instead of being thrown.
CaughtLateThrow(req, k) ==
  IF req.attempt > DefaultRetryCount - 1
  THEN [req EXCEPT !.failed = Append(@, k), !.pc = "done",
                   !.response = [status |-> 500,
                                 body |-> [error |-> ErrorPrefix(req.kind) \o ErrorMessage(k)]]]
  ELSE [req EXCEPT !.failed = Append(@, k), !.pc = "sleep",
                   !.sleeps = Append(@, BackoffUnit * (req.attempt + 1))]

\* The catch block without its await of the backoff timer: the timer is set
\* and the loop sends the next request at once.
CaughtNoBackoff(req, k) ==
  IF req.attempt >= DefaultRetryCount - 1
  THEN [req EXCEPT !.failed = Append(@, k), !.pc = "done",
                   !.response = [status |-> 500,
                                 body |-> [error |-> ErrorPrefix(req.kind) \o ErrorMessage(k)]]]
  ELSE [req EXCEPT !.failed = Append(@, k), !.pc = "fetch",
                   !.attempt = @ + 1, !.fetches = @ + 1]

\* The catch block of callGemini for an error of kind k: it is logged
\* (console.log, kept in failed); the last attempt throws it to the handler,
\* which answers 500; an earlier one starts the backoff.
Caught(req, k) ==
  IF req.attempt >= DefaultRetryCount - 1
  THEN [req EXCEPT !.failed = Append(@, k), !.pc = "done",
                   !.response = [status |-> 500,
                                 body |-> [error |-> ErrorPrefix(req.kind) \o ErrorMessage(k)]]]
  ELSE [req EXCEPT !.failed = Append(@, k), !.pc = "sleep",
                   !.sleeps = Append(@, BackoffUnit * (req.attempt + 1))]

\* An attempt fails.
GeminiFails(r) ==
  /\ reqs[r].pc = "fetch"
  /\ \E k \in FailureKinds : reqs' = [reqs EXCEPT ![r] = Caught(reqs[r], k)]
  /\ UNCHANGED <<researchTextCache, researchFilesCache>>
  /\ UNCHANGED frontVars

\* The backoff timer fires: attempt++, and the loop sends the next request, or
\* ends with the generic error.
BackoffElapses(r) ==
  /\ reqs[r].pc = "sleep"
  /\ reqs' = [reqs EXCEPT ![r] =
       IF reqs[r].attempt + 1 < DefaultRetryCount
       THEN [reqs[r] EXCEPT !.attempt = @ + 1, !.fetches = @ + 1, !.pc = "fetch"]
       ELSE [reqs[r] EXCEPT !.attempt = @ + 1, !.pc = "done",
               !.response = [status |-> 500,
                             body |-> [error |-> ErrorPrefix(reqs[r].kind) \o ErrorMessage("exhausted")]]]]
  /\ UNCHANGED <<researchTextCache, researchFilesCache>>
  /\ UNCHANGED frontVars

NextServer ==
  \/ \E r \in DOMAIN reqs : GenerateChart(r)
  \/ \E r \in DOMAIN reqs : MammothResolves(r)
  \/ \E r \in DOMAIN reqs : MammothRejects(r)
  \/ \E r \in DOMAIN reqs : GetTaskAnalysis(r)
  \/ \E r \in DOMAIN reqs : GeminiSucceeds(r)
  \/ \E r \in DOMAIN reqs : GeminiFails(r)
  \/ \E r \in DOMAIN reqs : BackoffElapses(r)

\* One request served by the server.
InitRetry == PageLoaded /\ ServerStarted(1)

SpecRetry == InitRetry /\ [][NextServer]_vars

\* Two requests served by the server, overlapping at their awaits.
InitOverlap == PageLoaded /\ ServerStarted(2)

\* The handlers with a completion endpoint that answers every request: the
\* caches are written and read before callGemini's first fetch only.
NextOverlap ==
  \/ \E r \in DOMAIN reqs : GenerateChart(r)
  \/ \E r \in DOMAIN reqs : MammothResolves(r)
  \/ \E r \in DOMAIN reqs : MammothRejects(r)
  \/ \E r \in DOMAIN reqs : GetTaskAnalysis(r)
  \/ \E r \in DOMAIN reqs : GeminiSucceeds(r)

SpecOverlap == InitOverlap /\ [][NextOverlap]_vars

\* Three requests, each upload of one file at most.
InitCache == PageLoaded /\ ServerStarted(3)

NextCache ==
  \/ \E r \in DOMAIN reqs : GenerateChart(r) /\ Len(reqs'[r].files) <= 1
  \/ \E r \in DOMAIN reqs : MammothResolves(r)
  \/ \E r \in DOMAIN reqs : MammothRejects(r)
  \/ \E r \in DOMAIN reqs : GetTaskAnalysis(r)
  \/ \E r \in DOMAIN reqs : GeminiSucceeds(r)

SpecCache == InitCache /\ [][NextCache]_vars

(***************************************************************************)
(* Claims about the resolver.                                              *)
(***************************************************************************)
\* addTodayLine has run on the state's reference date and column list.
Called == position.kind # "none"

FirstMatches(P(_)) == Len(timeColumns) > 0 /\ P(timeColumns[1])
Listed(label) == \E i \in 1..Len(timeColumns) : timeColumns[i] = label
\* The position returned names the column that carries label.
Found(label) ==
  /\ position.kind = "pos"
  /\ position.index + 1 \in 1..Len(timeColumns)
  /\ timeColumns[position.index + 1] = label
\* The percentage returned equals n / d.
FractionIs(n, d) == position.num * d = n * position.den

\* C1 as stated: with year columns that list the year of the reference date,
\* the position is that label's and the fraction is
\* (dayOfYear - 1) / (daysInYear - 1).
C1_YearFractionByDay ==
  (Called /\ FirstMatches(IsYearLabel) /\ Listed(YearLabel(today.year)))
    => /\ Found(YearLabel(today.year))
       /\ FractionIs(CalDayOfYear(today.year, today.month, today.day) - 1,
                     CalDaysInYear(today.year) - 1)

\* C1 amended: the fraction is the time elapsed since 1 Jan 00:00 over
\* (daysInYear - 1) days, that is (dayOfYear - 1 + hour / 24) / (daysInYear - 1);
\* it is (dayOfYear - 1) / (daysInYear - 1) for a reference date at 00:00.
C1_YearFractionByTime ==
  (Called /\ FirstMatches(IsYearLabel) /\ Listed(YearLabel(today.year)))
    => /\ Found(YearLabel(today.year))
       /\ FractionIs(24 * (CalDayOfYear(today.year, today.month, today.day) - 1) + today.hour,
                     24 * (CalDaysInYear(today.year) - 1))
       /\ today.hour = 0 =>
            FractionIs(CalDayOfYear(today.year, today.month, today.day) - 1,
                       CalDaysInYear(today.year) - 1)

\* 2 July of a non-leap year at noon, as setupChart writes its date: the
\* fraction is 182.5 / 364.
C1_Witness ==
  /\ Called
  /\ today = [year |-> 2025, month |-> 7, day |-> 2, hour |-> 12]
  /\ timeColumns = <<YearLabel(2025), YearLabel(2026)>>
  /\ position.kind = "pos"
  /\ position.index = 0
  /\ FractionIs(365, 728)

\* C2 as stated, for reference dates at 00:00: with quarter columns that list
\* the quarter of the reference date, the position is that label's and the
\* fraction is (days elapsed since the quarter's first day) / (days in the
\* quarter: 90, 91 or 92).
C2_QuarterFraction ==
  (Called /\ today.hour = 0 /\ FirstMatches(IsQuarterLabel)
     /\ Listed(QuarterLabel(CalQuarter(today.month), today.year)))
    => /\ Found(QuarterLabel(CalQuarter(today.month), today.year))
       /\ FractionIs(CalDayOfQuarter(today.year, today.month, today.day) - 1,
                     CalQuarterLen(today.year, CalQuarter(today.month)))

\* C3: with month columns that list the month of the reference date, the
\* position is that label's and the fraction is dayOfMonth / daysInMonth.
C3_MonthFraction ==
  (Called /\ FirstMatches(IsMonthLabel) /\ Listed(MonthLabel(today.month - 1, today.year)))
    => /\ Found(MonthLabel(today.month - 1, today.year))
       /\ FractionIs(today.day, CalMonthLen(today.year, today.month))

\* ['Nov 2025'] and 13 November 2025 give index 0 and 13/30.
C3_Witness ==
  /\ Called
  /\ today = [year |-> 2025, month |-> 11, day |-> 13, hour |-> 12]
  /\ timeColumns = <<<<"N", "o", "v", " ", "2", "0", "2", "5">>>>
  /\ position = Position(0, 13, 30)

\* The number a string of digits writes.
RECURSIVE ParseNumber(_)
ParseNumber(s) ==
  IF Len(s) = 0 THEN 0
  ELSE 10 * ParseNumber(SubSeq(s, 1, Len(s) - 1))
         + ((CHOOSE i \in 1..10 : DigitChars[i] = s[Len(s)]) - 1)

\* The label is W<w> <y> and names ISO week w of ISO year y.
DenotesWeek(label, w, y) ==
  /\ IsWeekLabel(label)
  /\ ParseNumber(SubSeq(label, 2, Len(label) - 5)) = w
  /\ ParseNumber(SubSeq(label, Len(label) - 3, Len(label))) = y

DenotesTodaysWeek(label) ==
  DenotesWeek(label, IsoWeek(today.year, today.month, today.day),
              IsoYear(today.year, today.month, today.day))

\* C4: with week columns, a position is returned only for a column whose label
\* names the ISO week holding the reference date, and none is returned when no
\* listed label names that week.
C4_WeekColumn ==
  (Called /\ FirstMatches(IsWeekLabel))
    => /\ position.kind = "pos" => DenotesTodaysWeek(timeColumns[position.index + 1])
       /\ (\A i \in 1..Len(timeColumns) : ~DenotesTodaysWeek(timeColumns[i]))
            => position = Null

\* C5: getWeek, which the resolver calls for week columns, is the ISO 8601
\* week number of every date, a value in 1..53.
C5_GetWeekIsIso ==
  (Called /\ FirstMatches(IsWeekLabel)) =>
    LET week == getWeek(TimeValue(today))
    IN  /\ week = IsoWeek(today.year, today.month, today.day)
        /\ week \in 1..53

\* Thursday 31 December 2026 lies in week 53, and the week column is found.
C5_Witness ==
  /\ Called
  /\ today.year = 2026 /\ today.month = 12 /\ today.day = 31
  /\ getWeek(TimeValue(today)) = 53
  /\ timeColumns = <<WeekLabel(53, 2026)>>
  /\ position.kind = "pos"

\* C6: a position returned has 0 <= index < timeColumns.length and
\* 0 <= fraction < 1.
C6_PositionRange ==
  (Called /\ position.kind = "pos")
    => /\ 0 <= position.index /\ position.index < Len(timeColumns)
       /\ 0 <= position.num /\ position.num < position.den

\* The label the resolver looks up, under the granularity of timeColumns[0].
TargetLabels ==
  IF FirstMatches(IsYearLabel) THEN {YearLabel(today.year)}
  ELSE IF FirstMatches(IsQuarterLabel) THEN {QuarterLabel(CalQuarter(today.month), today.year)}
  ELSE IF FirstMatches(IsMonthLabel) THEN {MonthLabel(today.month - 1, today.year)}
  ELSE IF FirstMatches(IsWeekLabel)
    THEN {WeekLabel(getWeek(TimeValue(today)), today.year)}
  ELSE {}

\* C7: when the label looked up is not listed the resolver returns null and
\* addTodayLine adds no today line; when it is listed, the index returned is
\* that of its first occurrence, and one today line is added.
C7_MissIsNull ==
  Called =>
    /\ (\A l \in TargetLabels : ~Listed(l)) => (position = Null /\ todayLines = <<>>)
    /\ \A l \in TargetLabels : Listed(l) =>
         /\ Found(l)
         /\ \A j \in 1..position.index : timeColumns[j] # l
         /\ Len(todayLines) = 1

\* A miss behind a listed neighbour, and a hit on the second of two columns.
C7_Witness ==
  /\ Called
  /\ today = [year |-> 2025, month |-> 11, day |-> 13, hour |-> 12]
  /\ timeColumns = <<YearLabel(2026), YearLabel(2026)>>
  /\ position = Null
  /\ todayLines = <<>>

\* C8: an empty column list, or a first label of no known format, gives null
\* whatever the other labels are.
C8_MalformedIsNull ==
  (Called /\ (timeColumns = <<>> \/ timeColumns[1] \in {Malformed, NearQuarter(today.year)}))
    => position = Null /\ todayLines = <<>>

\* 'abc' first, then the label of the reference date's year.
C8_Witness ==
  /\ Called
  /\ Len(timeColumns) = 2
  /\ timeColumns[1] = Malformed
  /\ timeColumns[2] = YearLabel(today.year)
  /\ position = Null

(***************************************************************************)
(* Claims about callGemini and the handlers that call it.                  *)
(***************************************************************************)
\* The request is answered and every attempt of its callGemini failed.
AllFailed(r) ==
  /\ reqs[r].pc = "done"
  /\ reqs[r].fetches > 0
  /\ Len(reqs[r].failed) = reqs[r].fetches

\* C9: a call whose attempts all fail makes the first attempt and 3 retries,
\* and waits 1 s, 2 s and 3 s before them.
C9_ThreeRetries ==
  \A r \in DOMAIN reqs :
    AllFailed(r) =>
      /\ reqs[r].fetches = 1 + 3
      /\ reqs[r].sleeps = <<1000, 2000, 3000>>

\* C10: when every attempt fails the handler answers 500 with its prefix and
\* the message of the last attempt's error, which is never the generic
\* 'All API retry attempts failed.', and no backoff follows the last attempt.
C10_LastErrorSurfaces ==
  \A r \in DOMAIN reqs :
    AllFailed(r) =>
      /\ reqs[r].response =
           [status |-> 500,
            body |-> [error |-> ErrorPrefix(reqs[r].kind)
                                  \o ErrorMessage(reqs[r].failed[Len(reqs[r].failed)])]]
      /\ reqs[r].response.body.error # ErrorPrefix(reqs[r].kind) \o "All API retry attempts failed."
      /\ Len(reqs[r].sleeps) = reqs[r].fetches - 1

\* An analysis request whose three attempts failed: on the network, on the
\* status, and last on a blocked safety rating.
C10_Witness ==
  \E r \in DOMAIN reqs :
    /\ AllFailed(r)
    /\ reqs[r].kind = "analysis"
    /\ reqs[r].failed = <<"network", "status", "blocked">>
    /\ reqs[r].response.status = 500
    /\ reqs[r].response.body.error =
         "Error generating task analysis: API call blocked due to safety rating: <category>"

\* Requests of request r's callGemini that the completion endpoint has not
\* answered yet: those sent, less those that failed and the one that succeeded.
Outstanding(r) ==
  reqs[r].fetches - Len(reqs[r].failed)
    - (IF reqs[r].response.status = 200 THEN 1 ELSE 0)

\* C11: at most one request of a callGemini is outstanding at any time; each
\* request after the first is sent after the one before it has failed and its
\* backoff has elapsed; the first success ends the call, and no request is
\* sent after it.
C11_Sequential ==
  /\ [](\A r \in DOMAIN reqs :
         /\ Outstanding(r) \in {0, 1}
         /\ Outstanding(r) = 1 =>
              /\ Len(reqs[r].failed) = reqs[r].fetches - 1
              /\ Len(reqs[r].sleeps) = reqs[r].fetches - 1
         /\ reqs[r].response.status = 200 =>
              /\ reqs[r].response.body = [json |-> r]
              /\ Len(reqs[r].failed) = reqs[r].fetches - 1)
  /\ [][\A r \in DOMAIN reqs :
          reqs[r].response.status = 200 => reqs'[r].fetches = reqs[r].fetches]_vars

\* The second attempt succeeds, after one failure and its backoff of 1000 ms.
C11_Witness ==
  \E r \in DOMAIN reqs :
    /\ reqs[r].response.status = 200
    /\ reqs[r].fetches = 2
    /\ Len(reqs[r].failed) = 1
    /\ reqs[r].sleeps = <<1000>>

(***************************************************************************)
(* Claims about the research caches.                                       *)
(***************************************************************************)
\* The block of one file in a research text: its start delimiter, its text
\* and its end delimiter, both delimiters with the file's name.
Block(f) ==
  <<[piece |-> "start", name |-> f.name],
    [piece |-> "text", of |-> f],
    [piece |-> "end", name |-> f.name]>>

\* The blocks of a set of files in ascending order of file name: a function
\* of the set.
RECURSIVE Corpus(_)
Corpus(S) ==
  IF S = {} THEN <<>>
  ELSE LET f == CHOOSE g \in S : \A h \in S : g.name <= h.name
       IN  Block(f) \o Corpus(S \ {f})

\* The blocks of a list of files, in the order of the list.
RECURSIVE Blocks(_)
Blocks(files) ==
  IF files = <<>> THEN <<>> ELSE Block(Head(files)) \o Blocks(Tail(files))

\* The files of a request, and those request r uploaded.
FilesIn(req) == {req.files[i] : i \in 1..Len(req.files)}
FilesOf(r) == FilesIn(reqs[r])

\* Request r is a /generate-chart request that has built its LLM query.
ChartQuerySent(r) == reqs[r].kind = "chart" /\ reqs[r].query.sent

\* The research text of r's query holds a text of a file of request s.
Embeds(r, s) ==
  \E i \in 1..Len(reqs[r].query.research) :
    /\ reqs[r].query.research[i].piece = "text"
    /\ reqs[r].query.research[i].of.owner = s

\* C12: the research text a /generate-chart request embeds in its query
\* differs from the text of its own files only when the request awaited an
\* extraction and another /generate-chart request was received; and with two
\* requests interleaved at their awaits that state is reached (the witness).
C12_ForeignTextOnlyByOverlap ==
  \A r \in DOMAIN reqs :
    (ChartQuerySent(r) /\ reqs[r].query.research # Blocks(reqs[r].files))
      => /\ \E i \in 1..Len(reqs[r].files) : reqs[r].files[i].mimetype = WordMime
         /\ \E s \in DOMAIN reqs : s # r /\ reqs[s].kind = "chart"

\* Request 1 awaits mammoth, request 2 resets the cache and writes its file,
\* request 1 goes on: its query is not its own text and holds text of 2.
C12_Witness ==
  /\ ChartQuerySent(1)
  /\ reqs[1].query.research # Blocks(reqs[1].files)
  /\ Embeds(1, 2)

IsPrefix(a, b) == Len(a) <= Len(b) /\ SubSeq(b, 1, Len(a)) = a

\* Request r is a /get-task-analysis request that has built its LLM query.
AnalysisQuerySent(r) == reqs[r].kind = "analysis" /\ reqs[r].query.sent

\* The /generate-chart requests received before request r, and the last of them.
ChartsBefore(r) == {s \in DOMAIN reqs : s < r /\ reqs[s].kind = "chart"}
LastChartBefore(r) == CHOOSE s \in ChartsBefore(r) : \A q \in ChartsBefore(r) : q <= s

\* The text is what the handler of request s alone writes after its reset:
\* the blocks of its files, or a beginning of them.
WrittenBy(text, s) == IsPrefix(text, Blocks(reqs[s].files))

\* A /generate-chart request that arrives resets both caches before it
\* extracts: what they hold after its first step is of its own files only.
ResetsFirst ==
  \A r \in DOMAIN reqs :
    (reqs[r].kind = "none" /\ reqs'[r].kind = "chart") =>
      /\ IsPrefix(researchTextCache', Blocks(reqs'[r].files))
      /\ IsPrefix(researchFilesCache', [i \in 1..Len(reqs'[r].files) |-> reqs'[r].files[i].name])

\* A /get-task-analysis request embeds the cache as it is when it is handled.
EmbedsCurrentCache ==
  \A r \in DOMAIN reqs :
    (reqs[r].kind = "none" /\ reqs'[r].kind = "analysis" /\ reqs'[r].query.sent) =>
      reqs'[r].query.research = researchTextCache

\* C13 as stated: every /generate-chart request resets the caches first; every
\* /get-task-analysis request embeds the cache current when it is handled,
\* which is the text written by the most recently started /generate-chart
\* request, and the empty text when there was none.
C13_LastWriteWins ==
  /\ [][ResetsFirst /\ EmbedsCurrentCache]_vars
  /\ [](\A r \in DOMAIN reqs :
         AnalysisQuerySent(r) =>
           IF ChartsBefore(r) = {} THEN reqs[r].query.research = <<>>
           ELSE WrittenBy(reqs[r].query.research, LastChartBefore(r)))

\* C13 amended: the reset and the embedding as stated; the cache embedded is
\* empty when there was no upload, holds only text of the uploads received,
\* and is the text of the most recently started /generate-chart request alone
\* when no earlier upload had a file whose extraction is awaited.
C13_CacheLifecycle ==
  /\ [][ResetsFirst /\ EmbedsCurrentCache]_vars
  /\ [](\A r \in DOMAIN reqs :
         AnalysisQuerySent(r) =>
           /\ ChartsBefore(r) = {} => reqs[r].query.research = <<>>
           /\ \A s \in DOMAIN reqs : Embeds(r, s) => s \in ChartsBefore(r)
           /\ (/\ ChartsBefore(r) # {}
               /\ \A q \in ChartsBefore(r) \ {LastChartBefore(r)} :
                    \A i \in 1..Len(reqs[q].files) : reqs[q].files[i].mimetype # WordMime)
                => WrittenBy(reqs[r].query.research, LastChartBefore(r)))

\* Two uploads one after the other, then an analysis: it embeds the block of
\* the second upload's file and nothing of the first.
C13_Witness ==
  /\ reqs[1].kind = "chart" /\ Len(reqs[1].files) = 1
  /\ reqs[2].kind = "chart" /\ Len(reqs[2].files) = 1
  /\ AnalysisQuerySent(3)
  /\ reqs[3].query.research = Blocks(reqs[2].files)
  /\ ~Embeds(3, 1)

\* C14 as stated: a /generate-chart request served alone embeds the blocks of
\* its files in ascending order of file name, each block the start delimiter,
\* the text and the end delimiter of one file; the text is a function of the
\* set of files, the same for every order of upload.
C14_SortedCorpus ==
  \A r \in DOMAIN reqs :
    ChartQuerySent(r) =>
      /\ reqs[r].query.research = Corpus(FilesOf(r))
      /\ Len(reqs[r].query.research) = 3 * Cardinality(FilesOf(r))

\* C15: a /generate-chart request one of whose files cannot be extracted is
\* answered 500 with {error: 'Error processing uploaded files.'}; no request
\* is sent to the completion endpoint for it and no chart data is returned.
C15_ExtractionFailureAborts ==
  \A r \in DOMAIN reqs :
    reqs[r].fileError =>
      /\ reqs[r].pc = "done"
      /\ reqs[r].response =
           [status |-> 500, body |-> [error |-> "Error processing uploaded files."]]
      /\ reqs[r].fetches = 0
      /\ ~reqs[r].query.sent

\* A plain text and a word-processing document: the first is extracted, the
\* second fails, and the request ends without a call of callGemini.
C15_Witness ==
  /\ reqs[1].fileError
  /\ Len(reqs[1].files) = 2
  /\ reqs[1].files[1].mimetype = "text/plain"
  /\ reqs[1].idx = 2
  /\ reqs[1].response.status = 500
  /\ reqs[1].fetches = 0
  /\ Len(researchTextCache) = 4

(***************************************************************************)
(* Claims about the form and the renderer.                                 *)
(***************************************************************************)
\* The last submit has ended, and in failure.
AttemptFailed == submit.pc = "idle" /\ submit.result = "failed"

\* C16 as stated: after a submit that ends in failure (no file selected, a
\* non-2xx response, a network error, an invalid payload) the chart container
\* holds no chart, and the error element is visible and shows the error text.
C16_FailureLeavesNoChart ==
  AttemptFailed =>
    /\ chartOutput = <<>>
    /\ errorMessage.display = "block"
    /\ errorMessage.textContent # ""

\* The payload lacks timeColumns or data; one of them is an empty array.
LacksList(d) == d.kind = "object" /\ (~d.timeColumns.present \/ ~d.data.present)
HasEmptyList(d) ==
  /\ d.kind = "object"
  /\ \/ (d.timeColumns.present /\ Len(d.timeColumns.items) = 0)
     \/ (d.data.present /\ Len(d.data.items) = 0)
\* Both lists are there and neither is empty.
HasBothLists(d) ==
  /\ d.kind = "object"
  /\ d.timeColumns.present /\ Len(d.timeColumns.items) > 0
  /\ d.data.present /\ Len(d.data.items) > 0

\* The handler has ended on a response that carried JSON.
PayloadHandled == submit.pc = "idle" /\ ganttData # NoData

Shows(message) == errorMessage = [textContent |-> "Error: " \o message, display |-> "block"]

\* C17 as stated: a payload that lacks timeColumns or data, or has one of
\* them empty, never reaches setupChart and is shown as the 'unable to find
\* any tasks or time columns' error; setupChart is called with two non-empty
\* lists only.
C17_ShapeErrorIsNothingFound ==
  PayloadHandled =>
    /\ (LacksList(ganttData) \/ HasEmptyList(ganttData)) =>
         (submit.setupChart = "none" /\ Shows(NothingFound))
    /\ submit.setupChart # "none" => HasBothLists(ganttData)

\* C17 amended: a payload that is null or lacks timeColumns or data is shown
\* as the 'Invalid chart data structure' error; one that has both and one of
\* them empty as the 'unable to find any tasks or time columns' error;
\* neither reaches setupChart, which is called with two non-empty lists only.
C17_ShapeValidation ==
  PayloadHandled =>
    /\ (ganttData.kind = "null" \/ LacksList(ganttData)) =>
         (submit.setupChart = "none" /\ Shows(InvalidStructure))
    /\ (HasEmptyList(ganttData) /\ ~LacksList(ganttData)) =>
         (submit.setupChart = "none" /\ Shows(NothingFound))
    /\ submit.setupChart # "none" => HasBothLists(ganttData)

\* Three columns and no rows: the 'unable to find' error, and no chart.
C17_Witness ==
  /\ PayloadHandled
  /\ ganttData.kind = "object"
  /\ ganttData.timeColumns = Array(ChartColumns(3))
  /\ ganttData.data = Array(<<>>)
  /\ submit.setupChart = "none"
  /\ Shows(NothingFound)
  /\ chartOutput = <<>>

\* The grid lines a gridColumn value `<start> / <end>` names.
SlashAt(g) == CHOOSE i \in 1..Len(g) : g[i] = "/"
StartLine(g) == ParseNumber(SubSeq(g, 1, SlashAt(g) - 2))
EndLine(g) == ParseNumber(SubSeq(g, SlashAt(g) + 2, Len(g)))

\* The columns of a bar area of n columns that lie between the two lines:
\* column c runs from line c to line c + 1.
CoveredColumns(g, n) == {c \in 1..n : StartLine(g) <= c /\ c + 1 <= EndLine(g)}

\* C18: in the chart rendered, the bar area of every row has timeColumns.length
\* columns; a task whose bar has a startCol gets one bar, on the grid lines
\* startCol and endCol, which lie in the area, so that it covers the columns
\* startCol .. endCol - 1; a swimlane and a row with a null startCol get none.
C18_BarPlacement ==
  (submit.result = "rendered" /\ chartOutput # <<>>) =>
    /\ Len(chartOutput[1].rows) = Len(ganttData.data.items)
    /\ \A i \in 1..Len(ganttData.data.items) :
         LET row == ganttData.data.items[i]
             area == chartOutput[1].rows[i].barArea
             n == Len(ganttData.timeColumns.items)
         IN  /\ area.gridTemplateColumns = n
             /\ Len(area.cells) = n
             /\ IF ~row.isSwimlane /\ row.bar.present /\ row.bar.startCol # <<>>
                THEN /\ Len(area.bars) = 1
                     /\ StartLine(area.bars[1].gridColumn) = row.bar.startCol[1]
                     /\ EndLine(area.bars[1].gridColumn) = row.bar.endCol[1]
                     /\ EndLine(area.bars[1].gridColumn) <= n + 1
                     /\ CoveredColumns(area.bars[1].gridColumn, n)
                          = row.bar.startCol[1] .. (row.bar.endCol[1] - 1)
                ELSE area.bars = <<>>

\* ['2023', '2024', '2025'], a swimlane and a task with bar {startCol: 2,
\* endCol: 3}: the bar covers the '2024' column and no other.
C18_Witness ==
  /\ submit.result = "rendered"
  /\ ganttData.timeColumns.items = <<YearLabel(2023), YearLabel(2024), YearLabel(2025)>>
  /\ ganttData.data.items = <<Row(TRUE, Absent), Row(FALSE, Bar(2, 3))>>
  /\ chartOutput[1].rows[1].barArea.bars = <<>>
  /\ chartOutput[1].rows[2].barArea.bars = <<[gridColumn |-> <<"2", " ", "/", " ", "3">>]>>
  /\ {chartOutput[1].header[c] : c \in CoveredColumns(chartOutput[1].rows[2].barArea.bars[1].gridColumn, 3)}
       = {YearLabel(2024)}

(***************************************************************************)
(* The analysis modal and the chat.                                        *)
(***************************************************************************)
\* C19: a question submitted from the modal is sent to the back end as
\* {taskName, entity, question} of the task the chat is bound to, and every
\* question the back end has answered shows the answer of a response
\* {answer} in place of its spinner.
C19_ChatAnswered ==
  \A a \in DOMAIN asks :
    /\ asks[a].path \in Routes
    /\ DOMAIN asks[a].body = {"taskName", "entity", "question"}
    /\ (asks[a].pc = "done" /\ asks[a].response.fetch = "resolved")
         => /\ asks[a].response.ok
            /\ asks[a].shown = asks[a].response.json.answer

\* C20: once the responses of an earlier and of a later click have both
\* arrived, the modal the later click opened shows what the later click's
\* own response wrote: its analysis when that response carried one, with the
\* chat form bound to the later click's task.
C20_LaterClickOwnsModal ==
  \A c1 \in DOMAIN calls : \A c2 \in DOMAIN calls :
    (/\ c1 < c2
     /\ calls[c1].pc # "fetch"
     /\ calls[c2].pc = "done"
     /\ modal # <<>>
     /\ modal[1].id = c2)
      => /\ modal[1].body.by = c2
         /\ calls[c2].ok =>
              /\ modal[1].body.kind = "analysis"
              /\ modal[1].title = calls[c2].task.taskName
              /\ modal[1].body.taskName = calls[c2].task.taskName
              /\ modal[1].chat # <<>>
              /\ modal[1].chat[1].task = calls[c2].task

\* C21: no call of showAnalysisModal ends with an exception nothing
\* handles, whatever its response was and whether or not the modal was
\* closed while the request was in flight.
C21_NoUnhandledRejection ==
  \A c \in DOMAIN calls : calls[c].pc # "unhandled"

(***************************************************************************)
(* Claims about extraction.                                                *)
(***************************************************************************)
\* No file of request r has the word-processing type.
PlainText(r) ==
  \A i \in 1..Len(reqs[r].files) : reqs[r].files[i].mimetype # WordMime

\* C22: a /generate-chart request whose files are all plain text resets the
\* cache, extracts and builds its query in the step it arrives in; and while
\* the files of every request are plain text, the research text of every
\* query sent is the blocks of the request's own files, however the
\* requests overlap.
C22_PlainTextAtomic ==
  /\ []((\A q \in DOMAIN reqs : PlainText(q))
          => \A r \in DOMAIN reqs :
               ChartQuerySent(r) => reqs[r].query.research = Blocks(reqs[r].files))
  /\ [][\A r \in DOMAIN reqs :
          (reqs[r].kind = "none" /\ reqs'[r].kind = "chart" /\ PlainText(r)')
            => /\ reqs'[r].query.sent
               /\ reqs'[r].query.research = Blocks(reqs'[r].files)
               /\ researchTextCache' = Blocks(reqs'[r].files)]_vars

\* Two /generate-chart requests of different plain-text files are in flight
\* at once, each with its own text in its query.
C22_Witness ==
  /\ ChartQuerySent(1) /\ ChartQuerySent(2)
  /\ reqs[1].pc = "fetch" /\ reqs[2].pc = "fetch"
  /\ PlainText(1) /\ PlainText(2)
  /\ Len(reqs[1].files) = MaxFiles /\ reqs[2].files # <<>>
  /\ reqs[1].query.research # reqs[2].query.research

\* What the handler of request r alone has written when it stops at its
\* file idx: the blocks of the files before it and its start delimiter; and
\* the names up to it.
PartialText(r) ==
  Blocks(SubSeq(reqs[r].files, 1, reqs[r].idx - 1))
    \o <<[piece |-> "start", name |-> reqs[r].files[reqs[r].idx].name]>>
PartialNames(r) == [i \in 1..reqs[r].idx |-> reqs[r].files[i].name]

\* Request r is the last /generate-chart request received, and the only one.
LastChart(r) ==
  reqs[r].kind = "chart" /\ \A s \in DOMAIN reqs : s > r => reqs[s].kind # "chart"
OnlyChart(r) ==
  reqs[r].kind = "chart" /\ \A s \in DOMAIN reqs : s # r => reqs[s].kind # "chart"

Loading == generateBtn.disabled /\ loadingIndicator.display = "flex"
Restored == ~generateBtn.disabled /\ loadingIndicator.display = "none"

\* C24: while the generation request is in flight the button is disabled and
\* the loading indicator shown; with no request in flight the button is
\* enabled and the indicator hidden; the step in which the fetch settles,
\* whatever its outcome, restores both; and every request sent leads to
\* that step when its fetch settles.
C24_LoadingState ==
  /\ [](IF submit.pc = "fetch" THEN Loading ELSE Restored)
  /\ [][(submit.pc = "fetch" /\ submit'.pc # "fetch") => Restored']_vars
  /\ (submit.pc = "fetch") ~> (submit.pc = "idle" /\ Restored)

\* The request was sent, setupChart threw while it rendered the payload,
\* and the button is enabled again.
C24_Witness ==
  /\ submit = [pc |-> "idle", result |-> "failed", setupChart |-> "threw"]
  /\ Restored
  /\ errorMessage.display = "block"

(***************************************************************************)
(* Claims about the order of marker positions.                             *)
(***************************************************************************)
\* The year a label ends with, and the number of its quarter, month or week
\* within that year (0 for a year label).
LabelYear(s) == ParseNumber(SubSeq(s, Len(s) - 3, Len(s)))
LabelPart(s) ==
  IF IsYearLabel(s) THEN 0
  ELSE IF IsQuarterLabel(s) THEN ParseNumber(SubSeq(s, 2, 2))
  ELSE IF IsMonthLabel(s)
    THEN (IF \E m \in 0..11 : MonthShort(m) = SubSeq(s, 1, 3)
          THEN CHOOSE m \in 0..11 : MonthShort(m) = SubSeq(s, 1, 3)
          ELSE -1)
  ELSE ParseNumber(SubSeq(s, 2, Len(s) - 5))

\* The labels are of one granularity and in chronological order.
Chronological(cols) ==
  /\ Len(cols) > 0
  /\ \/ \A i \in 1..Len(cols) : IsYearLabel(cols[i])
     \/ \A i \in 1..Len(cols) : IsQuarterLabel(cols[i])
     \/ \A i \in 1..Len(cols) : IsMonthLabel(cols[i]) /\ LabelPart(cols[i]) >= 0
     \/ \A i \in 1..Len(cols) : IsWeekLabel(cols[i])
  /\ \A i \in 1..Len(cols) : \A j \in 1..Len(cols) :
       i < j => \/ LabelYear(cols[i]) < LabelYear(cols[j])
                \/ /\ LabelYear(cols[i]) = LabelYear(cols[j])
                   /\ LabelPart(cols[i]) < LabelPart(cols[j])

\* index + fraction of p is at most index + fraction of q.
NotAfter(p, q) ==
  (p.index * p.den + p.num) * q.den <= (q.index * q.den + q.num) * p.den

\* The times of day in HourSet from the reference date to the end of the
\* sixth day after it.
WeekAhead == {TimeValue(today) + 12 * j : j \in 0..13}

\* C25: over a column list in chronological order, a later reference date
\* never gets a smaller index + fraction than an earlier one, when both get
\* a position.  The dates compared are the reference date the marker was
\* placed for and the dates of the week after it.
C25_MarkerMonotone ==
  (Called /\ position # Null /\ Chronological(timeColumns))
    => \A t \in WeekAhead :
         findTodayColumnPosition(t, timeColumns) # Null
           => NotAfter(position, findTodayColumnPosition(t, timeColumns))
====
